---------------------------- MODULE Spec2Model ----------------------------
(***************************************************************************)
(* Argon global model: the explicit-Euler reaction-kinetics script         *)
(* ("Argon Global Model.py") and the Tecplot loader / batch driver         *)
(* (plot_species_density.py).                                              *)
(*                                                                         *)
(* Numbers.  Densities, rate coefficients and times are integers in scaled *)
(* units and the arithmetic is exact: IEEE-754 rounding of the source's    *)
(* doubles is not modelled.  The value of a rate coefficient for a         *)
(* positive temperature (a product with a power and an exponential) is not *)
(* computed; it is drawn from KTables, one number >= 0 per reaction.       *)
(* Temperatures are in tenths, exponents C in hundredths.                  *)
(*                                                                         *)
(* Objects.  Python lists and arrays are heap objects: heap is the         *)
(* sequence of allocated vectors, and n and the entries of result are      *)
(* references (indices) into it, so aliasing between the live state and a  *)
(* stored sample is expressible.                                           *)
(***************************************************************************)
EXTENDS Integers, Sequences, FiniteSets, TLC

VARIABLES
    \* ---- Argon Global Model.py ----
    pc,         \* position of the script: "setup", "loop", "done", "error"
    err,        \* the exception that ended the script, or "none"
    kval,       \* numeric value of k1(Te)..k10(Te) for the run's Te > 0
    tspan,      \* <<t0, tEnd>>
    dt,         \* time step
    n_init,     \* the initial densities [E, Ar, Ar4s, Ar4p, Ar_ion] as given
    heap,       \* allocated density vectors
    n,          \* reference to the live density vector
    result,     \* list of references to the saved samples
    trange,     \* the sample times np.arange produced
    it,         \* number of loop iterations completed
    evals,      \* number of derivative vectors odesystem has returned
    \* ---- rate law evaluated on its own ----
    rIn,        \* the call: rate(A, B, C, D, T), or k_i(T) for a reaction id i
    rOut,       \* outcome of the call; kind "pending" before it
    \* ---- plot_species_density.py ----
    tecFile,    \* lines of the file handed to process_tec_file
    tecOut,     \* outcome of process_tec_file; kind "pending" before it
    mpc,        \* position of main: "files", "interactive", "returned", "raised"
    file_paths, \* the batch given to main
    fidx,       \* number of files of the batch main has gone through
    all_dfs,    \* tables loaded for plotting, in load order
    log         \* per file: "loaded", "preview" or "error"

odeVars  == <<pc, err, kval, tspan, dt, n_init, heap, n, result, trange, it, evals>>
rateVars == <<rIn, rOut>>
tecVars  == <<tecFile, tecOut>>
mainVars == <<mpc, file_paths, fidx, all_dfs, log>>
vars     == <<odeVars, rateVars, tecVars, mainVars>>

--------------------------------------------------------------------------
(* Bounds of the model *)

MaxDensity == 1     \* initial densities range over 0..MaxDensity
MaxT       == 3     \* tspan entries range over 0..MaxT
MaxDt      == 2     \* dt ranges over -MaxDt..MaxDt
MaxAbsT    == 2     \* temperatures handed to rate range over -MaxAbsT..MaxAbsT
MaxMagnitude == 1000 \* an iteration is taken only while every |density| <= MaxMagnitude

Abs(x) == IF x < 0 THEN -x ELSE x

--------------------------------------------------------------------------
(* Rate law *)

\* Electron temperature of the script, in tenths.
Te == 54

\* Python's float power T**C: a negative base with a non-integral exponent
\* gives a complex number, 0.0 to a negative power raises.
PyPow(T, C) ==
    IF T < 0 /\ C % 100 # 0 THEN "complex"
    ELSE IF T = 0 /\ C < 0 THEN "ZeroDivisionError"
    ELSE "float"

\* Python's true division -D/T.
PyDiv(D, T) == IF T = 0 THEN "ZeroDivisionError" ELSE "float"

\* A * 10**(-B) * T**C * np.exp(-D/T): the operands are evaluated left to
\* right; the outcome is the first exception, else the kind of the product.
rate(A, B, C, D, T) ==
    LET p == PyPow(T, C)
        q == PyDiv(D, T)
    IN  IF p = "ZeroDivisionError" \/ q = "ZeroDivisionError"
        THEN [kind |-> "ZeroDivisionError"]
        ELSE [kind |-> p, A |-> A, B |-> B, C |-> C, D |-> D, T |-> T]

\* Coefficients of k1..k10: A and D in thousandths, C in hundredths
\* (k1 is written out in the source with no power of ten: B = 0).
KSpec ==
    << <<234, 14, 59, 15760>>,  \* k1: 2.34e-14 * Te**0.59 * exp(-15.76/Te)
       <<5000, 15, 74, 11560>>, \* k2
       <<4300, 16, 74, 0>>,     \* k3
       <<1400, 14, 71, 13200>>, \* k4
       <<3900, 16, 71, 0>>,     \* k5
       <<8900, 13, 51, 1590>>,  \* k6
       <<3000, 13, 51, 0>>,     \* k7
       <<2900, 14, 68, 15759>>, \* k8
       <<6800, 15, 67, 4200>>,  \* k9
       <<1800, 13, 61, 2610>> >> \* k10

\* k1(T)..k10(T)
k(i, T) == rate(KSpec[i][1], KSpec[i][2], KSpec[i][3], KSpec[i][4], T)

\* Values the ten coefficients may take for a positive temperature.
KTables ==
    { [i \in 1..10 |-> 1],
      [i \in 1..10 |-> IF i \in {6, 7, 10} THEN 2 ELSE 1],
      [i \in 1..10 |-> IF i \in {2, 4, 8} THEN 1 ELSE 0] }


--------------------------------------------------------------------------
(* Solving: odesystem and the explicit-Euler loop *)

\* Numeric value of reaction i's coefficient inside odesystem: k_i(Te)
\* raises what rate raises; for the script's positive Te it is kv[i].
RateOf(i, kv) == IF k(i, Te).kind = "float" THEN kv[i] ELSE 0

\* Second reactant of each reaction, as an index into the density vector
\* (the first reactant is always E, index 1).
Reactant2 == <<2, 2, 3, 2, 4, 3, 4, 2, 3, 4>>

\* reaction_rates = [r * np.prod(reactant) ...]
reaction_rates(v, kv) ==
    [i \in 1..10 |-> RateOf(i, kv) * (v[1] * v[Reactant2[i]])]

dEdt(R)      == R[8] + R[9] + R[10]
\* (variant: direct ionisation R1 drains the ground state only)
dArdt_withR1(R) == -R[1] - R[2] + R[3] - R[4] + R[5] - R[8]
dArdt(R)     == -R[2] + R[3] - R[4] + R[5] - R[8]
dAr4sdt(R)   == R[2] - R[3] - R[6] + R[7] - R[9]
dAr4pdt(R)   == R[4] - R[5] + R[6] - R[7] - R[10]
\* (variant: ionisation from the second excited state left out)
dAr_iondt_noR10(R) == R[8] + R[9]
dAr_iondt(R) == R[8] + R[9] + R[10]

\* odesystem(n): unpacking a vector that has not exactly five entries
\* raises ValueError before anything is computed; then the ten coefficients
\* are evaluated (an exception of rate propagates), then the derivatives.
odesystem(v, kv) ==
    IF Len(v) # 5 THEN [ok |-> FALSE, err |-> "ValueError", dn |-> <<>>]
    ELSE IF \E i \in 1..10 : k(i, Te).kind = "ZeroDivisionError"
    THEN [ok |-> FALSE, err |-> "ZeroDivisionError", dn |-> <<>>]
    ELSE LET R == reaction_rates(v, kv)
         IN  [ok |-> TRUE, err |-> "none",
              dn |-> <<dEdt(R), dArdt(R), dAr4sdt(R), dAr4pdt(R), dAr_iondt(R)>>]

\* Ceiling of a / b for a >= 0, b > 0.
CeilDiv(a, b) == (a + b - 1) \div b

\* (variant: the count rounded down)
ArangeLen_floor(start, stop, step) ==
    IF step > 0
    THEN (IF stop > start THEN (stop - start) \div step ELSE 0)
    ELSE (IF stop < start THEN (start - stop) \div (-step) ELSE 0)

\* Number of entries of np.arange(start, stop, step), step # 0:
\* ceil((stop - start) / step), and none when that is not positive.
ArangeLen(start, stop, step) ==
    IF step > 0
    THEN (IF stop > start THEN CeilDiv(stop - start, step) ELSE 0)
    ELSE (IF stop < start THEN CeilDiv(start - stop, -step) ELSE 0)

\* np.arange(start, stop, step): start + j*step for j = 0 .. length-1.
arange(start, stop, step) ==
    [j \in 1..ArangeLen(start, stop, step) |-> start + (j - 1) * step]

\* n + dt * dn, elementwise.
EulerStep(v, h, dn) == [j \in 1..5 |-> v[j] + h * dn[j]]

\* (variant: n += dt * dn, the update written into the array n refers to)
Rebind_inplace(hp, ref, v) == [heap |-> [hp EXCEPT ![ref] = v], n |-> ref]

\* The assignment n = n + dt * dn: the sum is a new array and n is rebound
\* to it; the object n referred to before is left as it is.
Rebind(hp, ref, v) == [heap |-> Append(hp, v), n |-> Len(hp) + 1]

\* Initial density vectors: five entries, or too few or too many.
InitialStates ==
    [1..5 -> 0..MaxDensity] \cup { <<1, 1, 1, 1>>, <<1, 1, 1, 1, 1, 1>> }

RateIdle == rIn = [kind |-> "idle"] /\ rOut = [kind |-> "idle"]
TecIdle  == tecFile = <<>> /\ tecOut = [kind |-> "idle"]
MainIdle == mpc = "idle" /\ file_paths = <<>> /\ fidx = 0 /\ all_dfs = <<>> /\ log = <<>>

\* Lines 81-83: the script's inputs.
InitODE ==
    /\ pc = "setup"
    /\ err = "none"
    /\ kval \in KTables
    /\ tspan \in (0..1) \X (0..MaxT)
    /\ dt \in (-MaxDt)..MaxDt
    /\ n_init \in InitialStates
    /\ heap = <<n_init>>
    /\ n = 1
    /\ result = <<>>
    /\ trange = <<>>
    /\ it = 0
    /\ evals = 0
    /\ RateIdle /\ TecIdle /\ MainIdle

\* Lines 118-119: result = []; trange = np.arange(tspan[0], tspan[1], dt).
\* A zero step makes arange raise.
Setup ==
    /\ pc = "setup"
    /\ \/ /\ dt = 0
          /\ pc' = "error"
          /\ err' = "ZeroDivisionError"
          /\ UNCHANGED trange
       \/ /\ dt # 0
          /\ trange' = arange(tspan[1], tspan[2], dt)
          /\ pc' = "loop"
          /\ UNCHANGED err
    /\ result' = <<>>
    /\ UNCHANGED <<kval, tspan, dt, n_init, heap, n, it, evals>>
    /\ UNCHANGED <<rateVars, tecVars, mainVars>>

\* Lines 121-124, one iteration: dn = odesystem(n); result.append(n);
\* n = n + dt * dn.
LoopBody ==
    /\ pc = "loop"
    /\ it < Len(trange)
    /\ \A j \in DOMAIN heap[n] : Abs(heap[n][j]) <= MaxMagnitude
    /\ LET d == odesystem(heap[n], kval)
       IN  \/ /\ ~d.ok
              /\ pc' = "error"
              /\ err' = d.err
              /\ UNCHANGED <<heap, n, result, it, evals>>
           \/ /\ d.ok
              /\ LET r == Rebind(heap, n, EulerStep(heap[n], dt, d.dn))
                 IN  /\ heap' = r.heap
                     /\ n' = r.n
              /\ result' = Append(result, n)
              /\ it' = it + 1
              /\ evals' = evals + 1
              /\ UNCHANGED <<pc, err>>
    /\ UNCHANGED <<kval, tspan, dt, n_init, trange>>
    /\ UNCHANGED <<rateVars, tecVars, mainVars>>

\* Line 127, after the loop: nplot = np.vstack(result) raises ValueError
\* on an empty list.
Vstack ==
    /\ pc = "loop"
    /\ it = Len(trange)
    /\ \/ /\ result = <<>>
          /\ pc' = "error"
          /\ err' = "ValueError"
       \/ /\ result # <<>>
          /\ pc' = "done"
          /\ UNCHANGED err
    /\ UNCHANGED <<kval, tspan, dt, n_init, heap, n, result, trange, it, evals>>
    /\ UNCHANGED <<rateVars, tecVars, mainVars>>

NextODE == Setup \/ LoopBody \/ Vstack

Spec == InitODE /\ [][NextODE]_vars

\* The saved samples, as values.
Samples == [j \in 1..Len(result) |-> heap[result[j]]]

--------------------------------------------------------------------------
(* Properties of the solver *)

Valid5 == Len(n_init) = 5

\* Every density vector the run has allocated: the samples and the live state.
States == {heap[j] : j \in 1..Len(heap)}

\* C1: odesystem returns the same derivative for Electron (index 1 here)
\* and Ion (index 5), both R8+R9+R10, and Electron - Ion is the same in
\* every sample and in the live state as in the initial state.
C1_ChargeNeutrality ==
    Valid5 =>
      /\ \A v \in States : v[1] - v[5] = n_init[1] - n_init[5]
      /\ \A j \in 1..Len(result) :
            LET v == heap[result[j]]
                R == reaction_rates(v, kval)
                d == odesystem(v, kval)
            IN  d.ok /\ d.dn[1] = d.dn[5] /\ d.dn[1] = R[8] + R[9] + R[10]

\* C1 witness: a finished run of at least two steps in which the electron
\* density moved and Electron - Ion is not zero.
C1_Witness ==
    /\ pc = "done" /\ Len(result) >= 2
    /\ heap[n][1] # n_init[1]
    /\ n_init[1] # n_init[5]

Heavy(v) == v[2] + v[3] + v[4] + v[5]

\* C9: the derivatives of GroundState, ExcitedState1, ExcitedState2 and Ion
\* sum to zero, R1 enters no derivative, and Ar + Ar4s + Ar4p + Ar_ion is
\* the same in every sample and in the live state as in the initial state.
C9_HeavyParticleConservation ==
    Valid5 =>
      /\ \A v \in States : Heavy(v) = Heavy(n_init)
      /\ \A j \in 1..Len(result) :
            LET v == heap[result[j]]
                d == odesystem(v, kval)
            IN  /\ d.ok
                /\ d.dn[2] + d.dn[3] + d.dn[4] + d.dn[5] = 0
                /\ odesystem(v, [kval EXCEPT ![1] = kval[1] + 1]).dn = d.dn

\* C9 witness: a finished run in which R1 was not zero at the start and
\* every heavy species' density moved.
C9_Witness ==
    /\ pc = "done" /\ Len(result) >= 2
    /\ reaction_rates(n_init, kval)[1] > 0
    /\ \A s \in 2..5 : heap[n][s] # n_init[s]

\* C2 as stated: a run with t0 < tEnd and dt > 0 ends with exactly
\* floor((tEnd - t0)/dt) samples, the first one the initial state.
C2_FloorCount ==
    (pc \in {"done", "error"} /\ Valid5 /\ tspan[1] < tspan[2] /\ dt > 0) =>
      /\ Len(result) = (tspan[2] - tspan[1]) \div dt
      /\ Len(result) >= 1 => Samples[1] = n_init

\* C2 amended: such a run ends normally with exactly ceil((tEnd - t0)/dt)
\* samples, the least N with t0 + N*dt >= tEnd: one per time t0 + j*dt in
\* [t0, tEnd); the first sample is the initial state.
C2_CeilCount ==
    (pc \in {"done", "error"} /\ Valid5 /\ tspan[1] < tspan[2] /\ dt > 0) =>
      LET N == Len(result)
      IN  /\ pc = "done"
          /\ N >= 1
          /\ tspan[1] + (N - 1) * dt < tspan[2]
          /\ tspan[1] + N * dt >= tspan[2]
          /\ Len(trange) = N
          /\ \A j \in 1..N : trange[j] = tspan[1] + (j - 1) * dt
          /\ Samples[1] = n_init

\* C2 witness: a finished run whose (tEnd - t0)/dt is not an integer and
\* whose state moved after the first sample.
C2_Witness ==
    /\ pc = "done" /\ dt > 0
    /\ (tspan[2] - tspan[1]) % dt # 0
    /\ Len(result) >= 2
    /\ Samples[2] # n_init

\* C10: every step leaves the samples already in the buffer as they are,
\* and an iteration of the loop appends exactly one sample, the state as it
\* was before that iteration's update.
C10_AppendOnly ==
    [][ /\ Len(result') >= Len(result)
        /\ \A j \in 1..Len(result) :
              result'[j] = result[j] /\ heap'[result'[j]] = heap[result[j]]
        /\ it' # it =>
              /\ it' = it + 1
              /\ Len(result') = Len(result) + 1
              /\ heap'[result'[Len(result')]] = heap[n]
        /\ Len(result') # Len(result) => it' # it ]_vars

\* C10 witness: two samples in the buffer that differ from each other and
\* from the live state.
C10_Witness ==
    /\ Len(result) >= 2
    /\ Samples[1] # Samples[2]
    /\ heap[n] # Samples[2]
    /\ Samples[1] = n_init

InvalidConfig == dt <= 0 \/ tspan[2] <= tspan[1] \/ Len(n_init) # 5

\* C4: with a non-positive time step, tEnd <= t0 or an initial state that
\* has not five entries, the run is rejected before integration begins: no
\* derivative is evaluated, no Euler step taken, no sample appended, and
\* the run does not finish normally.
C4_RejectedBeforeIntegration ==
    InvalidConfig =>
      /\ evals = 0
      /\ n = 1 /\ heap = <<n_init>>
      /\ result = <<>>
      /\ pc # "done"

\* C5: the returned trajectory carries no degradation marker at all, so
\* the claim is that a run that finishes has no negative density in any
\* sample.
C5_NoUnflaggedNegative ==
    (pc = "done" /\ Valid5) =>
      \A j \in 1..Len(result) : \A s \in 1..5 : Samples[j][s] >= 0

--------------------------------------------------------------------------
(* The rate law evaluated on its own: rate(A, B, C, D, T) and k1..k10 *)

\* Coefficient quadruples handed to rate directly: C integral, fractional
\* or negative, D zero or not.
RateQuadruples == {1} \X {0, 15} \X {-50, 0, 74, 100} \X {0, 1}

Temperatures == (-MaxAbsT)..MaxAbsT

RateInputs ==
    { [fn |-> "rate", i |-> 0, A |-> q[1], B |-> q[2], C |-> q[3], D |-> q[4], T |-> T] :
        q \in RateQuadruples, T \in Temperatures }
    \cup
    { [fn |-> "k", i |-> i, A |-> KSpec[i][1], B |-> KSpec[i][2],
       C |-> KSpec[i][3], D |-> KSpec[i][4], T |-> T] :
        i \in 1..10, T \in Temperatures }

OdeIdle ==
    /\ pc = "idle" /\ err = "none" /\ kval = <<>> /\ tspan = <<0, 0>> /\ dt = 0
    /\ n_init = <<>> /\ heap = <<>> /\ n = 0 /\ result = <<>> /\ trange = <<>>
    /\ it = 0 /\ evals = 0

InitRate ==
    /\ rIn \in RateInputs
    /\ rOut = [kind |-> "pending"]
    /\ OdeIdle /\ TecIdle /\ MainIdle

\* A call rate(A, B, C, D, T).
EvalRate ==
    /\ rIn.fn = "rate"
    /\ rOut.kind = "pending"
    /\ rOut' = rate(rIn.A, rIn.B, rIn.C, rIn.D, rIn.T)
    /\ UNCHANGED <<rIn, odeVars, tecVars, mainVars>>

\* A call k1(T) .. k10(T).
EvalK ==
    /\ rIn.fn = "k"
    /\ rOut.kind = "pending"
    /\ rOut' = k(rIn.i, rIn.T)
    /\ UNCHANGED <<rIn, odeVars, tecVars, mainVars>>

NextRate == EvalRate \/ EvalK

SpecRate == InitRate /\ [][NextRate]_vars

\* C3: for every T <= 0 and every coefficient quadruple (D = 0 included)
\* the evaluation ends in an error and never returns a computed value.
C3_NonPositiveTRejected ==
    (rOut.kind # "pending" /\ rIn.T <= 0) => rOut.kind = "ZeroDivisionError"

--------------------------------------------------------------------------
(* plot_species_density.py: process_tec_file *)

(* A line of a file is a record of what the parser looks at:                *)
(*   vars   "VARIABLES" occurs in the upper-cased line                      *)
(*   zone   "ZONE" occurs in the upper-cased line                           *)
(*   key    the stripped, upper-cased line starts with TITLE or VARIABLES   *)
(*   quoted the non-empty double-quoted strings of the line, in order       *)
(*   nums   the whitespace-separated tokens float() accepts, in order       *)
(*   junk   some token of the line is not accepted by float()               *)
(* A line with a keyword or a quoted string has a token float() rejects.    *)
Line(v, z, ky, q, ns, j) ==
    [vars |-> v, zone |-> z, key |-> ky, quoted |-> q, nums |-> ns, junk |-> j]

TitleLine == Line(FALSE, FALSE, TRUE, <<"T">>, <<>>, TRUE)       \* TITLE = "T"
VarsLine  == Line(TRUE, FALSE, TRUE, <<"X", "Y">>, <<>>, TRUE)   \* VARIABLES = "X", "Y"
ContLine  == Line(FALSE, FALSE, FALSE, <<"W">>, <<>>, TRUE)      \* "W"
ZoneLine  == Line(FALSE, TRUE, FALSE, <<>>, <<>>, TRUE)          \* ZONE I=2, F=BLOCK
ZoneTLine == Line(FALSE, TRUE, FALSE, <<"Z1">>, <<>>, TRUE)      \* ZONE T="Z1", I=2
Data1Line == Line(FALSE, FALSE, FALSE, <<>>, <<1>>, FALSE)       \* 1.0
Data2Line == Line(FALSE, FALSE, FALSE, <<>>, <<2, 3>>, FALSE)    \* 2.0 3.0
MixedLine == Line(FALSE, FALSE, FALSE, <<>>, <<4>>, TRUE)        \* 4.0 n/a
BlankLine == Line(FALSE, FALSE, FALSE, <<>>, <<>>, FALSE)

LineAlphabet ==
    { TitleLine, VarsLine, ContLine, ZoneLine, ZoneTLine,
      Data1Line, Data2Line, MixedLine, BlankLine }

MaxLines == 4

SeqsUpTo(S, m) == UNION { [1..len -> S] : len \in 0..m }

TecFiles == SeqsUpTo(LineAlphabet, MaxLines)

\* Lines 68-78: the header scan.  From the first VARIABLES line on, every
\* line's quoted strings are collected, the line that holds ZONE included;
\* that line ends the scan and the data starts after it.
RECURSIVE HeaderScan(_, _, _, _)
HeaderScan(lines, idx, headers, inside_vars) ==
    IF idx > Len(lines)
    THEN [headers |-> headers, data_start_line |-> 0]
    ELSE LET line   == lines[idx]
             inside == inside_vars \/ line.vars
             hs     == IF inside THEN headers \o line.quoted ELSE headers
         IN  IF inside /\ line.zone
             THEN [headers |-> hs, data_start_line |-> idx]
             ELSE HeaderScan(lines, idx + 1, hs, inside)

\* Lines 83-93: the data scan over lines[data_start_line:].  It stops at a
\* line holding ZONE, skips blank lines and TITLE / VARIABLES lines, and
\* drops a whole line when float() rejects one of its tokens.
RECURSIVE DataScan(_, _, _)
DataScan(lines, idx, raw_data) ==
    IF idx > Len(lines) THEN raw_data
    ELSE LET line == lines[idx]
         IN  IF line.zone THEN raw_data
             ELSE IF (line.nums = <<>> /\ ~line.junk) \/ line.key
                  THEN DataScan(lines, idx + 1, raw_data)
             ELSE IF line.junk
                  THEN DataScan(lines, idx + 1, raw_data)
             ELSE DataScan(lines, idx + 1, raw_data \o line.nums)

\* The keys of the dictionary built at lines 101-105, in insertion order.
RECURSIVE Keys(_)
Keys(names) ==
    IF names = <<>> THEN <<>>
    ELSE LET front == Keys(SubSeq(names, 1, Len(names) - 1))
             last  == names[Len(names)]
         IN  IF \E j \in 1..Len(front) : front[j] = last
             THEN front ELSE Append(front, last)

\* Line 97: total_values % num_vars != 0.
Inconsistent(total_values, num_vars) == total_values % num_vars # 0

\* Lines 103-105: raw_data[i*num_points : (i+1)*num_points], i from 0.
Column(raw_data, i, num_vars, num_points) ==
    SubSeq(raw_data, (i - 1) * num_points + 1, i * num_points)

\* process_tec_file on a readable file.
process_tec_file(lines) ==
    LET scan     == HeaderScan(lines, 1, <<>>, FALSE)
        headers  == scan.headers
        raw_data == DataScan(lines, scan.data_start_line + 1, <<>>)
        num_vars     == Len(headers)
        total_values == Len(raw_data)
    IN  IF headers = <<>>
        THEN [kind |-> "ValueError", msg |-> "No VARIABLES block found",
              cols |-> <<>>, data |-> <<>>]
        ELSE IF Inconsistent(total_values, num_vars)
        THEN [kind |-> "ValueError", msg |-> "Data inconsistency",
              cols |-> <<>>, data |-> <<>>]
        ELSE LET num_points == total_values \div num_vars
                 LastAt(name) ==
                    CHOOSE i \in 1..num_vars :
                        /\ headers[i] = name
                        /\ \A j \in (i + 1)..num_vars : headers[j] # name
             IN  [kind |-> "ok", msg |-> "",
                  cols |-> Keys(headers),
                  data |-> [name \in {headers[i] : i \in 1..num_vars} |->
                               Column(raw_data, LastAt(name), num_vars, num_points)]]

InitTec ==
    /\ tecFile \in TecFiles
    /\ tecOut = [kind |-> "pending"]
    /\ OdeIdle /\ RateIdle /\ MainIdle

\* A call process_tec_file(file_path).
ProcessTecFile ==
    /\ tecOut.kind = "pending"
    /\ tecOut' = process_tec_file(tecFile)
    /\ UNCHANGED <<tecFile, odeVars, rateVars, mainVars>>

NextTec == ProcessTecFile

SpecTec == InitTec /\ [][NextTec]_vars

\* The names the VARIABLES block of a file lists: the quoted strings from
\* the first VARIABLES line up to the ZONE record that follows it (a line
\* that holds both keywords counts as part of the block).
FirstVars(lines) ==
    IF \E i \in 1..Len(lines) : lines[i].vars
    THEN CHOOSE i \in 1..Len(lines) :
            lines[i].vars /\ \A j \in 1..(i - 1) : ~lines[j].vars
    ELSE 0

HeaderEnd(lines) ==
    LET v == FirstVars(lines)
    IN  IF v > 0 /\ \E i \in v..Len(lines) : lines[i].zone
        THEN CHOOSE i \in v..Len(lines) :
                lines[i].zone /\ \A j \in v..(i - 1) : ~lines[j].zone
        ELSE Len(lines) + 1

RECURSIVE QuotedFrom(_, _, _)
QuotedFrom(lines, i, last) ==
    IF i > last \/ i > Len(lines) THEN <<>>
    ELSE (IF lines[i].zone /\ ~lines[i].vars THEN <<>> ELSE lines[i].quoted)
         \o QuotedFrom(lines, i + 1, last)

VariablesBlockNames(lines) ==
    IF FirstVars(lines) = 0 THEN <<>>
    ELSE QuotedFrom(lines, FirstVars(lines), HeaderEnd(lines))

\* The numeric values of the data block, in file order.
DataBlock(lines) ==
    DataScan(lines, HeaderScan(lines, 1, <<>>, FALSE).data_start_line + 1, <<>>)

Distinct(names) ==
    \A i, j \in 1..Len(names) : names[i] = names[j] => i = j

\* C6: process_tec_file ends in ValueError, with no table, whenever the
\* file has no header block with quoted column names or the number of
\* values in its data block is not a multiple of the number of header
\* columns.
C6_ParseErrorWhenMalformed ==
    tecOut.kind \in {"ok", "ValueError"} =>
      LET names  == VariablesBlockNames(tecFile)
          values == DataBlock(tecFile)
      IN  (names = <<>> \/ Len(values) % Len(names) # 0)
            => tecOut.kind = "ValueError"

\* C7: when process_tec_file succeeds on a file whose header names c
\* (distinct) columns and whose data block holds c*p values, the table has
\* exactly those c columns in header order, and column i holds the values
\* at flat positions (i-1)*p+1 .. i*p (counted from 1) of the data block.
C7_ColumnMajorTable ==
    tecOut.kind = "ok" =>
      LET names  == VariablesBlockNames(tecFile)
          values == DataBlock(tecFile)
          c      == Len(names)
      IN  (c > 0 /\ Distinct(names) /\ Len(values) % c = 0) =>
            LET p == Len(values) \div c
            IN  /\ tecOut.cols = names
                /\ \A i \in 1..c :
                      tecOut.data[names[i]] = SubSeq(values, (i - 1) * p + 1, i * p)

--------------------------------------------------------------------------
(* plot_species_density.py: main, the loop over the files of a batch *)

GoodFile  == <<TitleLine, VarsLine, ZoneLine, Data2Line>>  \* X = [2], Y = [3]
GoodFile2 == <<VarsLine, ZoneLine, Data1Line, Data1Line>>  \* X = [1], Y = [1]
NoHeaderFile == <<Data2Line>>                              \* no VARIABLES block
OddFile   == <<VarsLine, ZoneLine, Data1Line>>             \* one value, two columns

\* The files a batch is drawn from: the path, its suffix, whether open()
\* finds it, and its lines.
BatchFiles ==
    { [path |-> "good.tec",  suffix |-> ".tec", exists |-> TRUE,  lines |-> GoodFile],
      [path |-> "GOOD2.TEC", suffix |-> ".TEC", exists |-> TRUE,  lines |-> GoodFile2],
      [path |-> "nohdr.tec", suffix |-> ".tec", exists |-> TRUE,  lines |-> NoHeaderFile],
      [path |-> "odd.tec",   suffix |-> ".tec", exists |-> TRUE,  lines |-> OddFile],
      [path |-> "gone.tec",  suffix |-> ".tec", exists |-> FALSE, lines |-> <<>>],
      [path |-> "notes.dat", suffix |-> ".dat", exists |-> TRUE,  lines |-> NoHeaderFile],
      [path |-> "gone.out",  suffix |-> ".out", exists |-> FALSE, lines |-> <<>>] }

MaxBatch == 2

\* str.lower() on the suffixes that occur.
Lower(suffix) == IF suffix = ".TEC" THEN ".tec" ELSE suffix

\* Lines 155-167, the body of the try block for one file: what it ends in.
\* open() of a missing file raises FileNotFoundError.
ProcessFile(f) ==
    IF ~f.exists THEN [kind |-> "FileNotFoundError"]
    ELSE IF Lower(f.suffix) = ".tec"
         THEN process_tec_file(f.lines)
         ELSE [kind |-> "preview"]

\* (variant: no handler around the body, the exception leaves main)
AfterException_raise == "raised"

\* Lines 168-170: except Exception: print the error and continue.
AfterException == "files"

InitMain ==
    /\ mpc = "files"
    /\ file_paths \in UNION { [1..len -> BatchFiles] : len \in 1..MaxBatch }
    /\ fidx = 0
    /\ all_dfs = <<>>
    /\ log = <<>>
    /\ OdeIdle /\ RateIdle /\ TecIdle

\* Lines 153-170, one iteration of "for file_path in file_paths".
NextFile ==
    /\ mpc = "files"
    /\ fidx < Len(file_paths)
    /\ LET f == file_paths[fidx + 1]
           r == ProcessFile(f)
       IN  \/ /\ r.kind = "ok"
              /\ all_dfs' = Append(all_dfs, [table |-> r, file_name |-> f.path])
              /\ log' = Append(log, "loaded")
              /\ mpc' = "files"
           \/ /\ r.kind = "preview"
              /\ log' = Append(log, "preview")
              /\ mpc' = "files"
              /\ UNCHANGED all_dfs
           \/ /\ r.kind \in {"ValueError", "FileNotFoundError"}
              /\ log' = Append(log, "error")
              /\ mpc' = AfterException
              /\ UNCHANGED all_dfs
    /\ fidx' = fidx + 1
    /\ UNCHANGED <<file_paths, odeVars, rateVars, tecVars>>

\* Lines 173-177: after the loop main returns when nothing was loaded and
\* enters the command loop otherwise.
AfterFiles ==
    /\ mpc = "files"
    /\ fidx = Len(file_paths)
    /\ \/ /\ all_dfs = <<>>
          /\ mpc' = "returned"
       \/ /\ all_dfs # <<>>
          /\ mpc' = "interactive"
    /\ UNCHANGED <<file_paths, fidx, all_dfs, log, odeVars, rateVars, tecVars>>

NextMain == NextFile \/ AfterFiles

SpecMain == InitMain /\ [][NextMain]_vars

\* Whether file f is a .tec file that parses.
Parses(f) ==
    f.exists /\ Lower(f.suffix) = ".tec" /\ process_tec_file(f.lines).kind = "ok"

\* The paths among the first m of the batch that parse, in batch order.
RECURSIVE ParsedPaths(_, _)
ParsedPaths(paths, m) ==
    IF m = 0 THEN <<>>
    ELSE LET front == ParsedPaths(paths, m - 1)
         IN  IF Parses(paths[m]) THEN Append(front, paths[m].path) ELSE front

\* C8: a failure on one file does not abort the batch: main leaves the
\* loop only after going through every file, one outcome per file in
\* order, and the tables loaded for plotting are those of exactly the .tec
\* files that parse, in batch order, whatever failed before or after them.
C8_BatchSurvivesFailures ==
    /\ mpc \in {"files", "interactive", "returned"}
    /\ Len(log) = fidx
    /\ mpc # "files" => fidx = Len(file_paths)
    /\ [j \in 1..Len(all_dfs) |-> all_dfs[j].file_name] = ParsedPaths(file_paths, fidx)
    /\ \A j \in 1..fidx :
          (log[j] = "loaded") = Parses(file_paths[j])

\* C8 witness: a batch whose first file fails and whose second file is
\* loaded, main having reached the command loop.
C8_Witness ==
    /\ mpc = "interactive"
    /\ Len(file_paths) >= 2
    /\ log[1] = "error"
    /\ log[2] = "loaded"
    /\ Len(all_dfs) = 1

==========================================================================
